---- MODULE Spec2Model ----
(***************************************************************************)
(* Model of the LabJack U3 streaming node (src/src/labjack_daq_node.cpp):  *)
(* the constructor's command sequence, the four low-level commands with    *)
(* their response validation, the periodic polling cycle and the           *)
(* destructor.  Buffers are functions from byte offsets (0-based, as in    *)
(* the code) to bytes.                                                     *)
(***************************************************************************)
EXTENDS Integers, Sequences, FiniteSets, TLC

(* ---------------------------------------------------------------------- *)
(* Program constants                                                      *)
(* ---------------------------------------------------------------------- *)
NumChannels == 5

SamplesPerPacket == 25

readSizeMultiplier == 5

responseSize == 14 + SamplesPerPacket * 2

recBuffSize == 14 + SamplesPerPacket * 2

scanInterval == 4000

\* Number of rows of the voltages array.
voltagesRows == (SamplesPerPacket \div NumChannels) * readSizeMultiplier

\* hardwareVersion >= 1.30, in hundredths.
HwThreshold == 130

(* ---------------------------------------------------------------------- *)
(* Bounds of the environment (device answers fed to the node)             *)
(* ---------------------------------------------------------------------- *)
\* Largest number of packets of one stream read that differ from a plain
\* status-0, well-formed packet.
MaxDeviations == 2

\* Timer triggers followed in one run of the node.
MaxCycles == 2

(* ---------------------------------------------------------------------- *)
(* Checksum codec (u3.c)                                                  *)
(* ---------------------------------------------------------------------- *)
RECURSIVE SumBytes(_, _, _)
SumBytes(b, lo, hi) ==
    IF lo > hi THEN 0 ELSE b[lo] + SumBytes(b, lo + 1, hi)

\* Sum of all bytes except the checksum byte, truncated to 8 bits.
normalChecksum8(b, n) == SumBytes(b, 1, n - 1) % 256

\* 8-bit checksum over header bytes 1..5.
extendedChecksum8(b) == SumBytes(b, 1, 5) % 256

\* 16-bit sum over bytes 6..n-1.
extendedChecksum16(b, n) == SumBytes(b, 6, n - 1) % 65536

\* View of a buffer starting at offset off (recBuff + m * recBuffSize).
Slice(b, off, n) == [i \in 0..(n - 1) |-> b[off + i]]

\* extendedChecksum(): writes checksum16 into bytes 4,5 and checksum8
\* into byte 0 of an extended frame of n bytes.
extendedChecksum(b, n) ==
    LET a  == extendedChecksum16(b, n)
        b1 == [b EXCEPT ![4] = a % 256, ![5] = (a \div 256) % 256]
    IN  [b1 EXCEPT ![0] = extendedChecksum8(b1)]

(* ---------------------------------------------------------------------- *)
(* Result of one low-level command call                                   *)
(* ---------------------------------------------------------------------- *)
\* ret: returned int; msg: which diagnostic of the function was printed
\* ("" when none); didRead: LJUSB_Read was called; dacSet/dac:
\* *isDAC1Enabled written.
Result(ret, msg, didRead) ==
    [ret |-> ret, msg |-> msg, didRead |-> didRead, dacSet |-> FALSE, dac |-> 0]

(* ---------------------------------------------------------------------- *)
(* ConfigIO_example                                                       *)
(* ---------------------------------------------------------------------- *)
ConfigIO_sendBuff ==
    extendedChecksum(
        [i \in 0..11 |->
            CASE i = 1 -> 248  \* 0xF8
              [] i = 2 -> 3
              [] i = 3 -> 11   \* 0x0B
              [] i = 6 -> 13
              [] i = 8 -> 64
              [] i = 10 -> 255
              [] i = 11 -> 255
              [] OTHER -> 0], 12)

\* Variant: the DAC1 output is written as soon as the response is read,
\* before the response is checked.
ConfigIO_example_DacFirst(sendChars, recChars, recBuff) ==
    LET checked ==
        IF sendChars < 12 THEN
            Result(-1, IF sendChars = 0 THEN "write failed"
                       ELSE "did not write all of the buffer", FALSE)
        ELSE IF recChars < 12 THEN
            Result(-1, IF recChars = 0 THEN "read failed"
                       ELSE "did not read all of the buffer", TRUE)
        ELSE
        LET checksumTotal == extendedChecksum16(recBuff, 12) IN
        IF (checksumTotal \div 256) % 256 # recBuff[5] THEN
            Result(-1, "bad checksum16(MSB)", TRUE)
        ELSE IF checksumTotal % 256 # recBuff[4] THEN
            Result(-1, "bad checksum16(LBS)", TRUE)
        ELSE IF extendedChecksum8(recBuff) # recBuff[0] THEN
            Result(-1, "bad checksum8", TRUE)
        ELSE IF recBuff[1] # 248 \/ recBuff[2] # 3 \/ recBuff[3] # 11 THEN
            Result(-1, "wrong command bytes", TRUE)
        ELSE IF recBuff[6] # 0 THEN
            Result(-1, "errorcode", TRUE)
        ELSE IF recBuff[8] # 64 THEN
            Result(-1, "TimerCounterConfig not set", TRUE)
        ELSE IF recBuff[10] # 255 /\ recBuff[10] # 15 THEN
            Result(-1, "FIOAnalog not set", TRUE)
        ELSE IF recBuff[11] # 255 THEN
            Result(-1, "EIOAnalog not set", TRUE)
        ELSE
            [ret |-> 0, msg |-> "", didRead |-> TRUE,
             dacSet |-> TRUE, dac |-> recBuff[9]]
    IN  IF sendChars = 12 /\ recChars = 12
        THEN [checked EXCEPT !.dacSet = TRUE, !.dac = recBuff[9]]
        ELSE checked

ConfigIO_example(sendChars, recChars, recBuff) ==
    IF sendChars < 12 THEN
        Result(-1, IF sendChars = 0 THEN "write failed"
                   ELSE "did not write all of the buffer", FALSE)
    ELSE IF recChars < 12 THEN
        Result(-1, IF recChars = 0 THEN "read failed"
                   ELSE "did not read all of the buffer", TRUE)
    ELSE
    LET checksumTotal == extendedChecksum16(recBuff, 12) IN
    IF (checksumTotal \div 256) % 256 # recBuff[5] THEN
        Result(-1, "bad checksum16(MSB)", TRUE)
    ELSE IF checksumTotal % 256 # recBuff[4] THEN
        Result(-1, "bad checksum16(LBS)", TRUE)
    ELSE IF extendedChecksum8(recBuff) # recBuff[0] THEN
        Result(-1, "bad checksum8", TRUE)
    ELSE IF recBuff[1] # 248 \/ recBuff[2] # 3 \/ recBuff[3] # 11 THEN
        Result(-1, "wrong command bytes", TRUE)
    ELSE IF recBuff[6] # 0 THEN
        Result(-1, "errorcode", TRUE)
    ELSE IF recBuff[8] # 64 THEN
        Result(-1, "TimerCounterConfig not set", TRUE)
    ELSE IF recBuff[10] # 255 /\ recBuff[10] # 15 THEN
        Result(-1, "FIOAnalog not set", TRUE)
    ELSE IF recBuff[11] # 255 THEN
        Result(-1, "EIOAnalog not set", TRUE)
    ELSE
        [ret |-> 0, msg |-> "", didRead |-> TRUE,
         dacSet |-> TRUE, dac |-> recBuff[9]]

(* ---------------------------------------------------------------------- *)
(* StreamConfig_example                                                   *)
(* ---------------------------------------------------------------------- *)
StreamConfig_sendBuffSize == 12 + NumChannels * 2

\* Variant: the scan interval is stored high byte first.
StreamConfig_sendBuff_BigEndian ==
    extendedChecksum(
        [i \in 0..(StreamConfig_sendBuffSize - 1) |->
            CASE i = 1 -> 248
              [] i = 2 -> 3 + NumChannels
              [] i = 3 -> 17   \* 0x11
              [] i = 6 -> NumChannels
              [] i = 7 -> SamplesPerPacket
              [] i = 8 -> 0
              [] i = 9 -> 1
              [] i = 10 -> (scanInterval \div 256) % 256
              [] i = 11 -> scanInterval % 256
              [] i >= 12 /\ (i - 12) % 2 = 0 -> (i - 12) \div 2
              [] i >= 12 /\ (i - 12) % 2 = 1 -> 31
              [] OTHER -> 0], StreamConfig_sendBuffSize)

StreamConfig_sendBuff ==
    extendedChecksum(
        [i \in 0..(StreamConfig_sendBuffSize - 1) |->
            CASE i = 1 -> 248
              [] i = 2 -> 3 + NumChannels
              [] i = 3 -> 17   \* 0x11
              [] i = 6 -> NumChannels
              [] i = 7 -> SamplesPerPacket
              [] i = 8 -> 0
              [] i = 9 -> 1
              [] i = 10 -> scanInterval % 256
              [] i = 11 -> (scanInterval \div 256) % 256
              [] i >= 12 /\ (i - 12) % 2 = 0 -> (i - 12) \div 2
              [] i >= 12 /\ (i - 12) % 2 = 1 -> 31
              [] OTHER -> 0], StreamConfig_sendBuffSize)

\* Variant: the command echo is tested before the checksums.
StreamConfig_example_EchoFirst(sendChars, recChars, recBuff) ==
    IF sendChars < StreamConfig_sendBuffSize THEN
        Result(-1, IF sendChars = 0 THEN "write failed"
                   ELSE "did not write all of the buffer", FALSE)
    ELSE IF recChars < 8 THEN
        Result(-1, IF recChars = 0 THEN "read failed"
                   ELSE "did not read all of the buffer", TRUE)
    ELSE
    LET checksumTotal == extendedChecksum16(recBuff, 8) IN
    IF recBuff[1] # 248 \/ recBuff[2] # 1 \/ recBuff[3] # 17
       \/ recBuff[7] # 0 THEN
        Result(-1, "wrong command bytes", TRUE)
    ELSE IF (checksumTotal \div 256) % 256 # recBuff[5] THEN
        Result(-1, "bad checksum16(MSB)", TRUE)
    ELSE IF checksumTotal % 256 # recBuff[4] THEN
        Result(-1, "bad checksum16(LBS)", TRUE)
    ELSE IF extendedChecksum8(recBuff) # recBuff[0] THEN
        Result(-1, "bad checksum8", TRUE)
    ELSE IF recBuff[6] # 0 THEN
        Result(-1, "errorcode", TRUE)
    ELSE
        Result(0, "", TRUE)

\* Variant: the device error code of the response is not looked at.
StreamConfig_example_NoErrorcode(sendChars, recChars, recBuff) ==
    IF sendChars < StreamConfig_sendBuffSize THEN
        Result(-1, IF sendChars = 0 THEN "write failed"
                   ELSE "did not write all of the buffer", FALSE)
    ELSE IF recChars < 8 THEN
        Result(-1, IF recChars = 0 THEN "read failed"
                   ELSE "did not read all of the buffer", TRUE)
    ELSE
    LET checksumTotal == extendedChecksum16(recBuff, 8) IN
    IF (checksumTotal \div 256) % 256 # recBuff[5] THEN
        Result(-1, "bad checksum16(MSB)", TRUE)
    ELSE IF checksumTotal % 256 # recBuff[4] THEN
        Result(-1, "bad checksum16(LBS)", TRUE)
    ELSE IF extendedChecksum8(recBuff) # recBuff[0] THEN
        Result(-1, "bad checksum8", TRUE)
    ELSE IF recBuff[1] # 248 \/ recBuff[2] # 1 \/ recBuff[3] # 17
            \/ recBuff[7] # 0 THEN
        Result(-1, "wrong command bytes", TRUE)
    ELSE
        Result(0, "", TRUE)

StreamConfig_example(sendChars, recChars, recBuff) ==
    IF sendChars < StreamConfig_sendBuffSize THEN
        Result(-1, IF sendChars = 0 THEN "write failed"
                   ELSE "did not write all of the buffer", FALSE)
    ELSE IF recChars < 8 THEN
        Result(-1, IF recChars = 0 THEN "read failed"
                   ELSE "did not read all of the buffer", TRUE)
    ELSE
    LET checksumTotal == extendedChecksum16(recBuff, 8) IN
    IF (checksumTotal \div 256) % 256 # recBuff[5] THEN
        Result(-1, "bad checksum16(MSB)", TRUE)
    ELSE IF checksumTotal % 256 # recBuff[4] THEN
        Result(-1, "bad checksum16(LBS)", TRUE)
    ELSE IF extendedChecksum8(recBuff) # recBuff[0] THEN
        Result(-1, "bad checksum8", TRUE)
    ELSE IF recBuff[1] # 248 \/ recBuff[2] # 1 \/ recBuff[3] # 17
            \/ recBuff[7] # 0 THEN
        Result(-1, "wrong command bytes", TRUE)
    ELSE IF recBuff[6] # 0 THEN
        Result(-1, "errorcode", TRUE)
    ELSE
        Result(0, "", TRUE)

(* ---------------------------------------------------------------------- *)
(* StreamStart / StreamStop                                               *)
(* ---------------------------------------------------------------------- *)
StreamStart_sendBuff == [i \in 0..1 |-> 168]   \* 0xA8, 0xA8

\* Variant: the echo of the command (bytes 1 and 3) is not looked at.
StreamStart_NoEchoCheck(sendChars, recChars, recBuff) ==
    IF sendChars < 2 THEN
        Result(-1, IF sendChars = 0 THEN "write failed"
                   ELSE "did not write all of the buffer", FALSE)
    ELSE IF recChars < 4 THEN
        Result(-1, IF recChars = 0 THEN "read failed"
                   ELSE "did not read all of the buffer", TRUE)
    ELSE IF normalChecksum8(recBuff, 4) # recBuff[0] THEN
        Result(-1, "bad checksum8", TRUE)
    ELSE IF recBuff[2] # 0 THEN
        Result(-1, "errorcode", TRUE)
    ELSE
        Result(0, "", TRUE)

StreamStart(sendChars, recChars, recBuff) ==
    IF sendChars < 2 THEN
        Result(-1, IF sendChars = 0 THEN "write failed"
                   ELSE "did not write all of the buffer", FALSE)
    ELSE IF recChars < 4 THEN
        Result(-1, IF recChars = 0 THEN "read failed"
                   ELSE "did not read all of the buffer", TRUE)
    ELSE IF normalChecksum8(recBuff, 4) # recBuff[0] THEN
        Result(-1, "bad checksum8", TRUE)
    ELSE IF recBuff[1] # 169 \/ recBuff[3] # 0 THEN
        Result(-1, "wrong command bytes", TRUE)
    ELSE IF recBuff[2] # 0 THEN
        Result(-1, "errorcode", TRUE)
    ELSE
        Result(0, "", TRUE)

StreamStop_sendBuff == [i \in 0..1 |-> 176]    \* 0xB0, 0xB0

StreamStop(sendChars, recChars, recBuff) ==
    IF sendChars < 2 THEN
        Result(-1, IF sendChars = 0 THEN "write failed"
                   ELSE "did not write all of the buffer", FALSE)
    ELSE IF recChars < 4 THEN
        Result(-1, IF recChars = 0 THEN "read failed"
                   ELSE "did not read all of the buffer", TRUE)
    ELSE IF normalChecksum8(recBuff, 4) # recBuff[0] THEN
        Result(-1, "bad checksum8", TRUE)
    ELSE IF recBuff[1] # 177 \/ recBuff[3] # 0 THEN
        Result(-1, "wrong command bytes", TRUE)
    ELSE IF recBuff[2] # 0 THEN
        \* the printf of this path is compiled out (#if 0)
        Result(-1, "", TRUE)
    ELSE
        Result(0, "", TRUE)

(* ---------------------------------------------------------------------- *)
(* Calibration converter (u3.c): opaque deterministic functions of their  *)
(* arguments; the value is kept as the call that produced it.             *)
(* ---------------------------------------------------------------------- *)
getAinVoltCalibrated_hw130(caliInfo, positiveChannel, negChannel, bytesVolt) ==
    <<"hw130", caliInfo, positiveChannel, negChannel, bytesVolt>>

getAinVoltCalibrated(caliInfo, dacEnabled, negChannel, bytesVolt) ==
    <<"legacy", caliInfo, dacEnabled, negChannel, bytesVolt>>

\* msgAdc.data[k] = voltages[..][k]: narrowing of a double to float32.
ToFloat32(v) == <<"float32", v>>

(* ---------------------------------------------------------------------- *)
(* onReadAndPubTimer: the polling cycle                                   *)
(* ---------------------------------------------------------------------- *)
\* The memory of the handler's scalar locals as a run finds it: what the
\* run before left there.
NoFrame ==
    [currChannel |-> 0, scanNumber |-> 0, totalPackets |-> 0,
     autoRecoveryOn |-> 0]

StaleFrames ==
    [currChannel : 0..NumChannels, scanNumber : 0..voltagesRows,
     totalPackets : 0..readSizeMultiplier, autoRecoveryOn : {0, 1}]

\* Variant: autoRecoveryOn keeps its value from one run to the next
\* (as a static local would).
CycleStart_KeepRecovery(stale) ==
    [currChannel |-> 0, scanNumber |-> 0, totalPackets |-> 0,
     autoRecoveryOn |-> stale.autoRecoveryOn,
     voltages |-> [s \in 0..(voltagesRows - 1), c \in 0..(NumChannels - 1)
                     |-> <<"uninit">>],
     writes |-> <<>>, notices |-> <<>>, errors |-> <<>>,
     returned |-> FALSE]

\* Locals of the handler after their initialisation (lines 386-391), run
\* on the memory stale; voltages is uninitialised stack memory.
CycleStart(stale) ==
    [currChannel |-> 0, scanNumber |-> 0, totalPackets |-> 0,
     autoRecoveryOn |-> 0,
     voltages |-> [s \in 0..(voltagesRows - 1), c \in 0..(NumChannels - 1)
                     |-> <<"uninit">>],
     writes |-> <<>>, notices |-> <<>>, errors |-> <<>>,
     returned |-> FALSE]

\* Early "return" of the handler after logging an error.
Abort(st, err) == [st EXCEPT !.errors = Append(@, err), !.returned = TRUE]

\* Variant: the newer conversion is used above version 1.30 only.
ConvertSample_Above130(hardwareVersion, dacEnabled, currChannel, voltageBytes) ==
    IF hardwareVersion > HwThreshold
    THEN getAinVoltCalibrated_hw130(hardwareVersion, currChannel,
                                    31, voltageBytes)
    ELSE getAinVoltCalibrated(hardwareVersion, dacEnabled, 31, voltageBytes)

\* Conversion of one raw code (lines 517-525): the branch on the hardware
\* version and the arguments handed to the converter.
ConvertSample(hardwareVersion, dacEnabled, currChannel, voltageBytes) ==
    IF hardwareVersion >= HwThreshold
    THEN getAinVoltCalibrated_hw130(hardwareVersion, currChannel,
                                    31, voltageBytes)
    ELSE getAinVoltCalibrated(hardwareVersion, dacEnabled, 31, voltageBytes)

\* Variant: the channel wraps one sample late (> instead of >=).
RECURSIVE ExtractSamples_LateWrap(_, _, _, _, _, _)
ExtractSamples_LateWrap(st, recBuff, m, k, hardwareVersion, dacEnabled) ==
    IF k >= 12 + SamplesPerPacket * 2 THEN st
    ELSE
    LET voltageBytes == (recBuff[m * recBuffSize + k]
                         + recBuff[m * recBuffSize + k + 1] * 256) % 65536
        v == ConvertSample(hardwareVersion, dacEnabled, st.currChannel,
                           voltageBytes)
        idx == <<st.scanNumber, st.currChannel>>
        st1 == [st EXCEPT
                  !.voltages = IF idx \in DOMAIN @
                               THEN [@ EXCEPT ![idx] = v] ELSE @,
                  !.writes = Append(@, [scan |-> st.scanNumber,
                                        chan |-> st.currChannel,
                                        packet |-> m, k |-> k, volt |-> v])]
        st2 == IF st.currChannel + 1 > NumChannels
               THEN [st1 EXCEPT !.currChannel = 0,
                                !.scanNumber = st.scanNumber + 1]
               ELSE [st1 EXCEPT !.currChannel = st.currChannel + 1]
    IN  ExtractSamples_LateWrap(st2, recBuff, m, k + 2, hardwareVersion,
                                dacEnabled)

\* Variant: the sample loop runs one sample too far (<= instead of <).
RECURSIVE ExtractSamples_OneMore(_, _, _, _, _, _)
ExtractSamples_OneMore(st, recBuff, m, k, hardwareVersion, dacEnabled) ==
    IF k > 12 + SamplesPerPacket * 2 THEN st
    ELSE
    LET voltageBytes == (recBuff[m * recBuffSize + k]
                         + recBuff[m * recBuffSize + k + 1] * 256) % 65536
        v == ConvertSample(hardwareVersion, dacEnabled, st.currChannel,
                           voltageBytes)
        idx == <<st.scanNumber, st.currChannel>>
        st1 == [st EXCEPT
                  !.voltages = IF idx \in DOMAIN @
                               THEN [@ EXCEPT ![idx] = v] ELSE @,
                  !.writes = Append(@, [scan |-> st.scanNumber,
                                        chan |-> st.currChannel,
                                        packet |-> m, k |-> k, volt |-> v])]
        st2 == IF st.currChannel + 1 >= NumChannels
               THEN [st1 EXCEPT !.currChannel = 0,
                                !.scanNumber = st.scanNumber + 1]
               ELSE [st1 EXCEPT !.currChannel = st.currChannel + 1]
    IN  ExtractSamples_OneMore(st2, recBuff, m, k + 2, hardwareVersion, dacEnabled)

\* The sample loop of one packet (lines 512-532), from byte offset k.
RECURSIVE ExtractSamples(_, _, _, _, _, _)
ExtractSamples(st, recBuff, m, k, hardwareVersion, dacEnabled) ==
    IF k >= 12 + SamplesPerPacket * 2 THEN st
    ELSE
    LET voltageBytes == (recBuff[m * recBuffSize + k]
                         + recBuff[m * recBuffSize + k + 1] * 256) % 65536
        v == ConvertSample(hardwareVersion, dacEnabled, st.currChannel,
                           voltageBytes)
        idx == <<st.scanNumber, st.currChannel>>
        st1 == [st EXCEPT
                  !.voltages = IF idx \in DOMAIN @
                               THEN [@ EXCEPT ![idx] = v] ELSE @,
                  !.writes = Append(@, [scan |-> st.scanNumber,
                                        chan |-> st.currChannel,
                                        packet |-> m, k |-> k, volt |-> v])]
        st2 == IF st.currChannel + 1 >= NumChannels
               THEN [st1 EXCEPT !.currChannel = 0,
                                !.scanNumber = st.scanNumber + 1]
               ELSE [st1 EXCEPT !.currChannel = st.currChannel + 1]
    IN  ExtractSamples(st2, recBuff, m, k + 2, hardwareVersion, dacEnabled)

\* Variant: a buffer overflow (59) is treated as a device error.
StreamStatus_OverflowFatal(st, recBuff, m) ==
    LET status == recBuff[m * recBuffSize + 11] IN
    IF status = 60 THEN
        [st EXCEPT !.notices = Append(@, [kind |-> "recovery",
                         packet |-> st.totalPackets,
                         dropped |-> recBuff[m * recBuffSize + 6]
                                     + recBuff[m * recBuffSize + 7] * 256]),
                   !.autoRecoveryOn = 0]
    ELSE IF status # 0 THEN
        Abort(st, [msg |-> "errorcode", code |-> recBuff[11]])
    ELSE st

\* Variant: the recovery report (60) leaves the recovery flag set.
StreamStatus_NoClear(st, recBuff, m) ==
    LET status == recBuff[m * recBuffSize + 11] IN
    IF status = 59 THEN
        IF st.autoRecoveryOn = 0
        THEN [st EXCEPT !.notices = Append(@, [kind |-> "overflow",
                                               packet |-> st.totalPackets,
                                               dropped |-> 0]),
                        !.autoRecoveryOn = 1]
        ELSE st
    ELSE IF status = 60 THEN
        [st EXCEPT !.notices = Append(@, [kind |-> "recovery",
                         packet |-> st.totalPackets,
                         dropped |-> recBuff[m * recBuffSize + 6]
                                     + recBuff[m * recBuffSize + 7] * 256])]
    ELSE IF status # 0 THEN
        Abort(st, [msg |-> "errorcode", code |-> recBuff[11]])
    ELSE st

\* Status byte handling of packet m (lines 468-496).
StreamStatus(st, recBuff, m) ==
    LET status == recBuff[m * recBuffSize + 11] IN
    IF status = 59 THEN
        IF st.autoRecoveryOn = 0
        THEN [st EXCEPT !.notices = Append(@, [kind |-> "overflow",
                                               packet |-> st.totalPackets,
                                               dropped |-> 0]),
                        !.autoRecoveryOn = 1]
        ELSE st
    ELSE IF status = 60 THEN
        [st EXCEPT !.notices = Append(@, [kind |-> "recovery",
                         packet |-> st.totalPackets,
                         dropped |-> recBuff[m * recBuffSize + 6]
                                     + recBuff[m * recBuffSize + 7] * 256]),
                   !.autoRecoveryOn = 0]
    ELSE IF status # 0 THEN
        Abort(st, [msg |-> "errorcode", code |-> recBuff[11]])
    ELSE st

\* Variant: the checksum8 test of a packet is missing.
ProcessPacket_NoChecksum8(st0, recBuff, m, hardwareVersion, dacEnabled) ==
    LET st == [st0 EXCEPT !.totalPackets = @ + 1]
        pkt == Slice(recBuff, m * recBuffSize, recBuffSize)
        checksumTotal == extendedChecksum16(pkt, recBuffSize)
    IN
    IF (checksumTotal \div 256) % 256 # recBuff[m * recBuffSize + 5] THEN
        Abort(st, [msg |-> "bad checksum16(MSB)", code |-> 0])
    ELSE IF checksumTotal % 256 # recBuff[m * recBuffSize + 4] THEN
        Abort(st, [msg |-> "bad checksum16(LBS)", code |-> 0])
    ELSE IF recBuff[m * recBuffSize + 1] # 249
            \/ recBuff[m * recBuffSize + 2] # 4 + SamplesPerPacket
            \/ recBuff[m * recBuffSize + 3] # 192 THEN
        Abort(st, [msg |-> "wrong command bytes", code |-> 0])
    ELSE
    LET st1 == StreamStatus(st, recBuff, m) IN
    IF st1.returned THEN st1
    ELSE ExtractSamples(st1, recBuff, m, 12, hardwareVersion, dacEnabled)

\* Validation of packet m (lines 424-466), then status and samples.
ProcessPacket(st0, recBuff, m, hardwareVersion, dacEnabled) ==
    LET st == [st0 EXCEPT !.totalPackets = @ + 1]
        pkt == Slice(recBuff, m * recBuffSize, recBuffSize)
        checksumTotal == extendedChecksum16(pkt, recBuffSize)
    IN
    IF (checksumTotal \div 256) % 256 # recBuff[m * recBuffSize + 5] THEN
        Abort(st, [msg |-> "bad checksum16(MSB)", code |-> 0])
    ELSE IF checksumTotal % 256 # recBuff[m * recBuffSize + 4] THEN
        Abort(st, [msg |-> "bad checksum16(LBS)", code |-> 0])
    ELSE IF extendedChecksum8(pkt) # recBuff[m * recBuffSize] THEN
        Abort(st, [msg |-> "bad checksum8", code |-> 0])
    ELSE IF recBuff[m * recBuffSize + 1] # 249
            \/ recBuff[m * recBuffSize + 2] # 4 + SamplesPerPacket
            \/ recBuff[m * recBuffSize + 3] # 192 THEN
        Abort(st, [msg |-> "wrong command bytes", code |-> 0])
    ELSE
    LET st1 == StreamStatus(st, recBuff, m) IN
    IF st1.returned THEN st1
    ELSE ExtractSamples(st1, recBuff, m, 12, hardwareVersion, dacEnabled)

\* The packet loop (line 422), from packet m.
RECURSIVE PacketLoop(_, _, _, _, _)
PacketLoop(st, recBuff, m, hardwareVersion, dacEnabled) ==
    IF st.returned \/ m >= readSizeMultiplier THEN st
    ELSE PacketLoop(ProcessPacket(st, recBuff, m, hardwareVersion, dacEnabled),
                    recBuff, m + 1, hardwareVersion, dacEnabled)

\* voltages[scanNumber - 1][k]; reading outside the array is undefined.
VoltageAt(voltages, s, c) ==
    IF <<s, c>> \in DOMAIN voltages THEN voltages[<<s, c>>] ELSE <<"undef">>

\* What is left of a run of the handler: its locals at the return, the
\* conversions it made, what it logged and what it published.
Outcome(st, published) ==
    [currChannel |-> st.currChannel, scanNumber |-> st.scanNumber,
     totalPackets |-> st.totalPackets, autoRecoveryOn |-> st.autoRecoveryOn,
     writes |-> st.writes, notices |-> st.notices, errors |-> st.errors,
     published |-> published]

\* Variant: a short stream read is not detected.
ReadAndPub_NoShortCheck(start, recChars, recBuff, hardwareVersion, dacEnabled) ==
    LET st == PacketLoop(start, recBuff, 0, hardwareVersion, dacEnabled)
    IN
    IF st.returned THEN Outcome(st, <<>>)
    ELSE Outcome(st, << [k \in 0..(NumChannels - 1) |->
                           ToFloat32(VoltageAt(st.voltages,
                                               st.scanNumber - 1, k))] >>)

\* Variant: the first scan of the buffer is published, not the last.
ReadAndPub_FirstScan(start, recChars, recBuff, hardwareVersion, dacEnabled) ==
    IF recChars < responseSize * readSizeMultiplier THEN
        Outcome(Abort(start,
                  [msg |-> IF recChars = 0 THEN "read failed"
                           ELSE "did not read all of the buffer",
                   code |-> 0]), <<>>)
    ELSE
    LET st == PacketLoop(start, recBuff, 0, hardwareVersion, dacEnabled)
    IN
    IF st.returned THEN Outcome(st, <<>>)
    ELSE Outcome(st, << [k \in 0..(NumChannels - 1) |->
                           ToFloat32(VoltageAt(st.voltages, 0, k))] >>)

\* The whole handler from its initialised locals start: stream read of
\* recChars bytes into recBuff, packet
\* loop, publication of the last scan.  published is the sequence of
\* messages handed to adcPub_->publish.
ReadAndPub(start, recChars, recBuff, hardwareVersion, dacEnabled) ==
    IF recChars < responseSize * readSizeMultiplier THEN
        Outcome(Abort(start,
                  [msg |-> IF recChars = 0 THEN "read failed"
                           ELSE "did not read all of the buffer",
                   code |-> 0]), <<>>)
    ELSE
    LET st == PacketLoop(start, recBuff, 0, hardwareVersion, dacEnabled)
    IN
    IF st.returned THEN Outcome(st, <<>>)
    ELSE Outcome(st, << [k \in 0..(NumChannels - 1) |->
                           ToFloat32(VoltageAt(st.voltages,
                                               st.scanNumber - 1, k))] >>)

(* ---------------------------------------------------------------------- *)
(* The device side: answers the transport can deliver                     *)
(* ---------------------------------------------------------------------- *)
Bump(b, i) == [b EXCEPT ![i] = (@ + 1) % 256]

\* Corruption of the checksum bytes named in c (after they were computed).
Corrupt(b, c) ==
    LET b1 == IF "hi" \in c THEN Bump(b, 5) ELSE b
        b2 == IF "lo" \in c THEN Bump(b1, 4) ELSE b1
    IN  IF "ck8" \in c THEN Bump(b2, 0) ELSE b2

\* 12-byte ConfigIO responses.
ConfigIOResponses ==
    { Corrupt(extendedChecksum(
          [i \in 0..11 |-> CASE i = 1 -> 248 [] i = 2 -> 3 [] i = 3 -> cmd
                             [] i = 6 -> err [] i = 8 -> tcc [] i = 9 -> dac
                             [] i = 10 -> fio [] i = 11 -> eio
                             [] OTHER -> 0], 12), c) :
        cmd \in {11, 17}, err \in {0, 5}, tcc \in {64, 0}, dac \in {0, 1},
        fio \in {255, 15, 0}, eio \in {255, 0},
        c \in {{}, {"hi"}, {"lo"}, {"ck8"}, {"hi", "lo", "ck8"}} }

\* 8-byte StreamConfig responses.
StreamConfigResponses ==
    { Corrupt(extendedChecksum(
          [i \in 0..7 |-> CASE i = 1 -> 248 [] i = 2 -> words [] i = 3 -> 17
                            [] i = 6 -> err [] i = 7 -> b7
                            [] OTHER -> 0], 8), c) :
        words \in {1, 2}, err \in {0, 5}, b7 \in {0, 1},
        c \in SUBSET {"hi", "lo", "ck8"} }

\* 4-byte responses of the normal commands (StreamStart, StreamStop).
NormalResponses ==
    { LET b == [i \in 0..3 |-> CASE i = 1 -> ack [] i = 2 -> err
                                 [] i = 3 -> b3 [] OTHER -> 0]
          g == [b EXCEPT ![0] = normalChecksum8(b, 4)]
      IN  IF bad THEN Bump(g, 0) ELSE g :
        ack \in {169, 177}, err \in {0, 5}, b3 \in {0, 1}, bad \in BOOLEAN }

\* Kinds of StreamData packet: status 0 / 59 / 60 / another status, a
\* damaged checksum byte, a wrong command byte, or several of these.
OkKind == "ok"

NonFatalKinds == {"s59", "s60"}

FatalKinds == {"err", "hi", "lo", "ck8", "cmd",
               "hi+lo", "lo+ck8", "ck8+cmd", "cmd+err"}

MultiFaultKinds == {"hi+lo", "lo+ck8", "ck8+cmd", "cmd+err"}

PacketKinds == {OkKind} \cup NonFatalKinds \cup FatalKinds

KindCorrupt(kind) ==
    CASE kind = "hi" -> {"hi"}
      [] kind = "lo" -> {"lo"}
      [] kind = "ck8" -> {"ck8"}
      [] kind = "hi+lo" -> {"hi", "lo"}
      [] kind = "lo+ck8" -> {"lo", "ck8"}
      [] kind = "ck8+cmd" -> {"ck8"}
      [] OTHER -> {}

KindCmdBad(kind) == kind \in {"cmd", "ck8+cmd", "cmd+err"}

KindStatus(kind, m) ==
    CASE kind = "s59" -> 59
      [] kind = "s60" -> 60
      [] kind \in {"err", "cmd+err"} -> 48 + m
      [] OTHER -> 0

\* Raw code of sample i of packet m: distinct for every position of a read.
RawSample(m, i) == (4660 + 263 * (SamplesPerPacket * m + i)) % 65536

StreamPacket(m, kind) ==
    LET body == [i \in 0..(responseSize - 1) |->
            CASE i = 1 -> 249
              [] i = 2 -> 4 + SamplesPerPacket
              [] i = 3 -> IF KindCmdBad(kind) THEN 193 ELSE 192
              [] i = 6 -> 10 + m
              [] i = 7 -> 1 + m
              [] i = 10 -> m
              [] i = 11 -> KindStatus(kind, m)
              [] i >= 12 /\ i < 12 + SamplesPerPacket * 2 ->
                    IF i % 2 = 0 THEN RawSample(m, (i - 12) \div 2) % 256
                    ELSE RawSample(m, (i - 12) \div 2) \div 256
              [] OTHER -> 0]
    IN  Corrupt(extendedChecksum(body, responseSize), KindCorrupt(kind))

StreamPackets ==
    [m \in 0..(readSizeMultiplier - 1) |->
        [kind \in PacketKinds |-> StreamPacket(m, kind)]]

StreamBuffer(kinds) ==
    [i \in 0..(responseSize * readSizeMultiplier - 1) |->
        StreamPackets[i \div responseSize][kinds[i \div responseSize]]
                     [i % responseSize]]

\* The reads offered to the node: at most MaxDeviations packets are not
\* plain ones, a packet of a fatal kind is the last of them (the packets
\* behind it are plain), and a packet with several faults is the only one.
KindChoices ==
    UNION { { [m \in 0..(readSizeMultiplier - 1) |->
                 IF m \in D THEN f[m] ELSE OkKind] :
              f \in { g \in [D -> NonFatalKinds \cup FatalKinds] :
                        /\ \A m \in D : g[m] \in FatalKinds =>
                              \A n \in D : n <= m
                        /\ \A m \in D : g[m] \in MultiFaultKinds =>
                              D = {m} } } :
            D \in { E \in SUBSET (0..(readSizeMultiplier - 1)) :
                      Cardinality(E) <= MaxDeviations } }

StreamBuffers == { StreamBuffer(ks) : ks \in KindChoices }

(* ---------------------------------------------------------------------- *)
(* State of the node                                                      *)
(* ---------------------------------------------------------------------- *)
VARIABLES
    pc,               \* position in main(): constructor steps, spin, exit
    hDevice_,         \* "null", "open" or "closed"
    hardwareVersion_, \* caliInfo_.hardwareVersion, in hundredths
    dac1Enabled_,     \* Unwritten until ConfigIO_example writes it
    timerPub_,        \* TRUE once the wall timer exists
    thrown,           \* what() of the exception thrown by the constructor
    usb,              \* open, command writes and close so far, in order
    passed,           \* commands the constructor tested and found to return 0
    call,             \* the low-level command called last and its outcome
    stream,           \* recChars and recBuff of the last stream read
    cycle             \* outcome of the last run of onReadAndPubTimer

vars == <<pc, hDevice_, hardwareVersion_, dac1Enabled_, timerPub_, thrown,
          usb, passed, call, stream, cycle>>

HardwareVersions == {129, 130}

\* Marks the int member dac1Enabled_ while nothing has written it (it has
\* no initialiser); the device reports 0 or 1.
Unwritten == -1

NoCall == [cmd |-> "", sendBuff |-> <<>>, sendSize |-> 0, sendChars |-> 0,
           recChars |-> 0, recBuff |-> <<>>,
           ret |-> 0, msg |-> "", didRead |-> FALSE]

NoStream == [recChars |-> 0, recBuff |-> <<>>]

NoCycle == [ran |-> FALSE]

Init ==
    /\ pc = "openUSBConnection"
    /\ hDevice_ = "null"
    /\ hardwareVersion_ = 0
    /\ dac1Enabled_ = Unwritten
    /\ timerPub_ = FALSE
    /\ thrown = ""
    /\ usb = <<>>
    /\ passed = {}
    /\ call = NoCall
    /\ stream = NoStream
    /\ cycle = NoCycle

\* The entry of usb for one command: its LJUSB_Write (whether the read
\* was made is kept in call.didRead).
Transport(cmd, r) == << <<"write", cmd>> >>

\* The buffer each command hands to LJUSB_Write.
SendBuffOf(cmd) ==
    CASE cmd = "ConfigIO" -> ConfigIO_sendBuff
      [] cmd = "StreamConfig" -> StreamConfig_sendBuff
      [] cmd = "StreamStart" -> StreamStart_sendBuff
      [] cmd = "StreamStop" -> StreamStop_sendBuff

\* The byte count each command hands to LJUSB_Write.
SendSizeOf(cmd) ==
    CASE cmd = "ConfigIO" -> 12
      [] cmd = "StreamConfig" -> StreamConfig_sendBuffSize
      [] cmd = "StreamStart" -> 2
      [] cmd = "StreamStop" -> 2

\* Record of a call for the variable call.
CallOf(cmd, sendChars, recChars, recBuff, r) ==
    [cmd |-> cmd, sendBuff |-> SendBuffOf(cmd), sendSize |-> SendSizeOf(cmd),
     sendChars |-> sendChars,
     recChars |-> IF r.didRead THEN recChars ELSE 0,
     recBuff |-> IF r.didRead THEN recBuff ELSE <<>>,
     ret |-> r.ret, msg |-> r.msg, didRead |-> r.didRead]

Throw(what) ==
    /\ thrown' = what
    /\ pc' = "terminated"
    /\ UNCHANGED passed

\* if (f(...) != 0) throw std::runtime_error(what);
ThrowUnlessZero(cmd, r, what, nextpc) ==
    IF r.ret # 0
    THEN Throw(what)
    ELSE /\ pc' = nextpc
         /\ passed' = passed \cup {cmd}
         /\ UNCHANGED thrown

(* ---------------------------------------------------------------------- *)
(* LabjackNode::LabjackNode, one action per statement                     *)
(* ---------------------------------------------------------------------- *)
Ctor_openUSBConnection ==
    /\ pc = "openUSBConnection"
    /\ \E ok \in BOOLEAN :
         IF ok
         THEN /\ hDevice_' = "open"
              /\ usb' = Append(usb, <<"open">>)
              /\ pc' = "getCalibrationInfo"
              /\ UNCHANGED <<thrown, passed>>
         ELSE /\ Throw("Error: openUSBConnection")
              /\ UNCHANGED <<hDevice_, usb>>
    /\ UNCHANGED <<hardwareVersion_, dac1Enabled_, timerPub_, call, stream,
                   cycle>>

Ctor_getCalibrationInfo ==
    /\ pc = "getCalibrationInfo"
    /\ \/ /\ Throw("Error: getCalibrationInfo")
          /\ UNCHANGED hardwareVersion_
       \/ /\ \E hv \in HardwareVersions : hardwareVersion_' = hv
          /\ pc' = "ConfigIO_example"
          /\ UNCHANGED <<thrown, passed>>
    /\ UNCHANGED <<hDevice_, dac1Enabled_, timerPub_, usb, call, stream, cycle>>

\* Variant: the constructor goes from ConfigIO straight to StreamConfig.
Ctor_ConfigIO_NoStop ==
    /\ pc = "ConfigIO_example"
    /\ \E sendChars \in {0, 5, 12}, recChars \in {0, 11, 12},
          recBuff \in ConfigIOResponses :
         LET r == ConfigIO_example(sendChars, recChars, recBuff) IN
         /\ call' = CallOf("ConfigIO", sendChars, recChars, recBuff, r)
         /\ usb' = usb \o Transport("ConfigIO", r)
         /\ dac1Enabled_' = IF r.dacSet THEN r.dac ELSE dac1Enabled_
         /\ ThrowUnlessZero("ConfigIO", r, "Error: ConfigIO_example",
                            "StreamConfig_example")
    /\ UNCHANGED <<hDevice_, hardwareVersion_, timerPub_, stream, cycle>>

Ctor_ConfigIO ==
    /\ pc = "ConfigIO_example"
    /\ \E sendChars \in {0, 5, 12}, recChars \in {0, 11, 12},
          recBuff \in ConfigIOResponses :
         LET r == ConfigIO_example(sendChars, recChars, recBuff) IN
         /\ call' = CallOf("ConfigIO", sendChars, recChars, recBuff, r)
         /\ usb' = usb \o Transport("ConfigIO", r)
         /\ dac1Enabled_' = IF r.dacSet THEN r.dac ELSE dac1Enabled_
         /\ ThrowUnlessZero("ConfigIO", r, "Error: ConfigIO_example",
                            "StreamStop")
    /\ UNCHANGED <<hDevice_, hardwareVersion_, timerPub_, stream, cycle>>

\* "Stopping any previous streams": the result is ignored.
\* Variant: a failed StreamStop ends the constructor like the other
\* commands do.
Ctor_StreamStop_Checked ==
    /\ pc = "StreamStop"
    /\ \E sendChars \in {0, 1, 2}, recChars \in {0, 3, 4},
          recBuff \in NormalResponses :
         LET r == StreamStop(sendChars, recChars, recBuff) IN
         /\ call' = CallOf("StreamStop", sendChars, recChars, recBuff, r)
         /\ usb' = usb \o Transport("StreamStop", r)
         /\ IF r.ret # 0
            THEN Throw("Error: StreamStop")
            ELSE /\ pc' = "StreamConfig_example"
                 /\ UNCHANGED <<thrown, passed>>
    /\ UNCHANGED <<hDevice_, hardwareVersion_, dac1Enabled_, timerPub_,
                   stream, cycle>>

Ctor_StreamStop ==
    /\ pc = "StreamStop"
    /\ \E sendChars \in {0, 1, 2}, recChars \in {0, 3, 4},
          recBuff \in NormalResponses :
         LET r == StreamStop(sendChars, recChars, recBuff) IN
         /\ call' = CallOf("StreamStop", sendChars, recChars, recBuff, r)
         /\ usb' = usb \o Transport("StreamStop", r)
    /\ pc' = "StreamConfig_example"
    /\ UNCHANGED <<hDevice_, hardwareVersion_, dac1Enabled_, timerPub_,
                   thrown, passed, stream, cycle>>

\* recBuff is zeroed before the read (line 247): a short read leaves
\* zeroes behind the bytes received.
\* Variant: the result of StreamConfig_example is not looked at.
Ctor_StreamConfig_Unchecked ==
    /\ pc = "StreamConfig_example"
    /\ \E sendChars \in {0, 5, StreamConfig_sendBuffSize},
          recChars \in {0, 7, 8}, resp \in StreamConfigResponses :
         LET recBuff == [i \in 0..7 |-> IF i < recChars THEN resp[i] ELSE 0]
             r == StreamConfig_example(sendChars, recChars, recBuff)
         IN
         /\ call' = CallOf("StreamConfig", sendChars, recChars, recBuff, r)
         /\ usb' = usb \o Transport("StreamConfig", r)
    /\ pc' = "StreamStart"
    /\ passed' = passed \cup {"StreamConfig"}
    /\ UNCHANGED <<hDevice_, hardwareVersion_, dac1Enabled_, timerPub_,
                   thrown, stream, cycle>>

Ctor_StreamConfig ==
    /\ pc = "StreamConfig_example"
    /\ \E sendChars \in {0, 5, StreamConfig_sendBuffSize},
          recChars \in {0, 7, 8}, resp \in StreamConfigResponses :
         LET recBuff == [i \in 0..7 |-> IF i < recChars THEN resp[i] ELSE 0]
             r == StreamConfig_example(sendChars, recChars, recBuff)
         IN
         /\ call' = CallOf("StreamConfig", sendChars, recChars, recBuff, r)
         /\ usb' = usb \o Transport("StreamConfig", r)
         /\ ThrowUnlessZero("StreamConfig", r, "Error: StreamConfig_example",
                            "StreamStart")
    /\ UNCHANGED <<hDevice_, hardwareVersion_, dac1Enabled_, timerPub_,
                   stream, cycle>>

\* Variant: the result of StreamStart is not tested.
Ctor_StreamStart_Unchecked ==
    /\ pc = "StreamStart"
    /\ \E sendChars \in {0, 1, 2}, recChars \in {0, 3, 4},
          recBuff \in NormalResponses :
         LET r == StreamStart(sendChars, recChars, recBuff) IN
         /\ call' = CallOf("StreamStart", sendChars, recChars, recBuff, r)
         /\ usb' = usb \o Transport("StreamStart", r)
    /\ pc' = "create_wall_timer"
    /\ UNCHANGED <<hDevice_, hardwareVersion_, dac1Enabled_, timerPub_,
                   thrown, passed, stream, cycle>>

Ctor_StreamStart ==
    /\ pc = "StreamStart"
    /\ \E sendChars \in {0, 1, 2}, recChars \in {0, 3, 4},
          recBuff \in NormalResponses :
         LET r == StreamStart(sendChars, recChars, recBuff) IN
         /\ call' = CallOf("StreamStart", sendChars, recChars, recBuff, r)
         /\ usb' = usb \o Transport("StreamStart", r)
         /\ ThrowUnlessZero("StreamStart", r, "Error: StreamStart",
                            "create_wall_timer")
    /\ UNCHANGED <<hDevice_, hardwareVersion_, dac1Enabled_, timerPub_,
                   stream, cycle>>

\* Parameters, timer and publisher; then main() enters rclcpp::spin.
Ctor_createTimer ==
    /\ pc = "create_wall_timer"
    /\ timerPub_' = TRUE
    /\ pc' = "spin"
    /\ UNCHANGED <<hDevice_, hardwareVersion_, dac1Enabled_, thrown, usb,
                   passed, call, stream, cycle>>

(* ---------------------------------------------------------------------- *)
(* The timer callback and the destructor                                  *)
(* ---------------------------------------------------------------------- *)
\* Stream reads: the full buffer, or a short read that leaves the buffer
\* with whatever it held.
StreamReads ==
    { [recChars |-> responseSize * readSizeMultiplier, recBuff |-> b] :
        b \in StreamBuffers }
    \cup { [recChars |-> n,
            recBuff |-> StreamBuffer([m \in 0..(readSizeMultiplier - 1)
                                        |-> OkKind])] :
             n \in {0, responseSize * readSizeMultiplier - 1} }

\* The locals a run leaves in memory.
FrameOf(c) ==
    IF c.ran
    THEN [currChannel |-> c.currChannel, scanNumber |-> c.scanNumber,
          totalPackets |-> c.totalPackets,
          autoRecoveryOn |-> c.autoRecoveryOn]
    ELSE NoFrame

\* Number of runs of the handler so far.
CycleCount(c) == IF c.ran THEN c.count ELSE 0

\* How the run before ended, kept with the outcome of a run.
Ending(c) ==
    IF ~c.ran THEN "none"
    ELSE IF c.errors # <<>> THEN "aborted"
    ELSE IF c.autoRecoveryOn = 1 THEN "recovery"
    ELSE "complete"

\* Every run of the handler, by the locals it starts from and the members
\* it uses: what it reads and what it leaves.
HandlerRuns ==
    [s \in {CycleStart(f) : f \in StaleFrames},
     hv \in HardwareVersions, d \in {0, 1} |->
        { [stream |-> rd,
           out |-> ReadAndPub(s, rd.recChars, rd.recBuff, hv, d)] :
            rd \in StreamReads }]

\* Variant: a run that ends on an error stops the stream and cancels the
\* timer.
onReadAndPubTimer_StopOnError ==
    /\ pc = "spin"
    /\ timerPub_
    /\ CycleCount(cycle) < MaxCycles
    /\ \E run \in HandlerRuns[CycleStart(FrameOf(cycle)),
                               hardwareVersion_, dac1Enabled_] :
         /\ stream' = run.stream
         /\ cycle' = [ran |-> TRUE, count |-> CycleCount(cycle) + 1,
                      after |-> Ending(cycle)] @@ run.out
         /\ IF run.out.errors # <<>>
            THEN /\ usb' = Append(usb, <<"write", "StreamStop">>)
                 /\ timerPub_' = FALSE
            ELSE UNCHANGED <<usb, timerPub_>>
    /\ UNCHANGED <<pc, hDevice_, hardwareVersion_, dac1Enabled_,
                   thrown, passed, call>>

onReadAndPubTimer ==
    /\ pc = "spin"
    /\ timerPub_
    /\ CycleCount(cycle) < MaxCycles
    /\ \E run \in HandlerRuns[CycleStart(FrameOf(cycle)),
                               hardwareVersion_, dac1Enabled_] :
         /\ stream' = run.stream
         /\ cycle' = [ran |-> TRUE, count |-> CycleCount(cycle) + 1,
                      after |-> Ending(cycle)] @@ run.out
    /\ UNCHANGED <<pc, hDevice_, hardwareVersion_, dac1Enabled_, timerPub_,
                   thrown, usb, passed, call>>

\* Variant: the handle is closed only when the stream could be stopped.
Dtor_CloseIfStopped ==
    /\ pc = "spin"
    /\ \E sendChars \in {0, 1, 2}, recChars \in {0, 3, 4},
          recBuff \in NormalResponses :
         LET r == StreamStop(sendChars, recChars, recBuff) IN
         /\ call' = CallOf("StreamStop", sendChars, recChars, recBuff, r)
         /\ IF r.ret = 0
            THEN /\ usb' = (usb \o Transport("StreamStop", r))
                              \o << <<"close">> >>
                 /\ hDevice_' = "closed"
            ELSE /\ usb' = usb \o Transport("StreamStop", r)
                 /\ hDevice_' = hDevice_
    /\ timerPub_' = FALSE
    /\ stream' = NoStream
    /\ cycle' = NoCycle
    /\ pc' = "terminated"
    /\ UNCHANGED <<hardwareVersion_, dac1Enabled_, thrown, passed>>

\* LabjackNode::~LabjackNode, run when spin returns and main() exits.
Dtor ==
    /\ pc = "spin"
    /\ \E sendChars \in {0, 1, 2}, recChars \in {0, 3, 4},
          recBuff \in NormalResponses :
         LET r == StreamStop(sendChars, recChars, recBuff) IN
         /\ call' = CallOf("StreamStop", sendChars, recChars, recBuff, r)
         /\ usb' = (usb \o Transport("StreamStop", r)) \o << <<"close">> >>
    /\ hDevice_' = "closed"
    /\ timerPub_' = FALSE
    /\ stream' = NoStream
    /\ cycle' = NoCycle
    /\ pc' = "terminated"
    /\ UNCHANGED <<hardwareVersion_, dac1Enabled_, thrown, passed>>

Next ==
    \/ Ctor_openUSBConnection
    \/ Ctor_getCalibrationInfo
    \/ Ctor_ConfigIO
    \/ Ctor_StreamStop
    \/ Ctor_StreamConfig
    \/ Ctor_StreamStart
    \/ Ctor_createTimer
    \/ onReadAndPubTimer
    \/ Dtor

Spec == Init /\ [][Next]_vars

(* ---------------------------------------------------------------------- *)
(* Vocabulary of the properties                                           *)
(* ---------------------------------------------------------------------- *)
Range(q) == { q[i] : i \in DOMAIN q }

Packets == 0..(readSizeMultiplier - 1)

Channels == 0..(NumChannels - 1)

FullRead == stream.recChars = responseSize * readSizeMultiplier

StatusByte(b, m) == b[m * responseSize + 11]

\* Checksums and echoed command bytes of packet m are right.
PacketWellFormed(b, m) ==
    LET pkt == Slice(b, m * responseSize, responseSize)
        ck16 == extendedChecksum16(pkt, responseSize)
    IN  /\ pkt[5] = ck16 \div 256
        /\ pkt[4] = ck16 % 256
        /\ pkt[0] = extendedChecksum8(pkt)
        /\ pkt[1] = 249 /\ pkt[2] = 4 + SamplesPerPacket /\ pkt[3] = 192

PacketAccepted(b, m) ==
    PacketWellFormed(b, m) /\ StatusByte(b, m) \in {0, 59, 60}

\* First packet of the read that is not accepted (readSizeMultiplier if none).
FirstRejected(b) ==
    IF \A m \in Packets : PacketAccepted(b, m) THEN readSizeMultiplier
    ELSE CHOOSE m \in Packets :
            /\ ~PacketAccepted(b, m)
            /\ \A n \in Packets : n < m => PacketAccepted(b, n)

\* Raw code of sample i of packet m of a read buffer.
SampleAt(b, m, i) ==
    b[m * responseSize + 12 + 2 * i] + 256 * b[m * responseSize + 13 + 2 * i]

\* The calibrated conversion the node applies to a raw code of channel c.
Calibrated(c, raw) ==
    IF hardwareVersion_ >= HwThreshold
    THEN getAinVoltCalibrated_hw130(hardwareVersion_, c, 31, raw)
    ELSE getAinVoltCalibrated(hardwareVersion_, dac1Enabled_, 31, raw)

Wrote(cmd) == <<"write", cmd>> \in Range(usb)

(* ---------------------------------------------------------------------- *)
(* C1: StreamStart is written only after ConfigIO and StreamConfig were   *)
(* accepted; a polling cycle runs only after StreamStart was accepted;    *)
(* when ConfigIO, StreamConfig or StreamStart fails the constructor       *)
(* throws and no polling cycle ever runs.                                 *)
(* ---------------------------------------------------------------------- *)
T_C1 ==
    /\ Wrote("StreamStart") => {"ConfigIO", "StreamConfig"} \subseteq passed
    /\ (cycle.ran \/ timerPub_) => "StreamStart" \in passed
    /\ (call.cmd \in {"ConfigIO", "StreamConfig", "StreamStart"}
          /\ call.ret # 0) => thrown # ""
    /\ thrown # "" => ~cycle.ran /\ ~timerPub_ /\ pc = "terminated"

W_C1 ==
    /\ cycle.ran
    /\ passed = {"ConfigIO", "StreamConfig", "StreamStart"}

(* ---------------------------------------------------------------------- *)
(* C2 (as stated): StreamStop is sent before either configuration         *)
(* command, ConfigIO or StreamConfig.                                     *)
(* ---------------------------------------------------------------------- *)
C2_Original ==
    \A i \in DOMAIN usb :
        usb[i] \in {<<"write", "ConfigIO">>, <<"write", "StreamConfig">>}
        => \E j \in 1..(i - 1) : usb[j] = <<"write", "StreamStop">>

(* C2 (amended): StreamStop is sent before the stream is configured and   *)
(* started (StreamConfig, StreamStart), but after ConfigIO.               *)
T_C2 ==
    \A i \in DOMAIN usb :
        /\ usb[i] \in {<<"write", "StreamConfig">>, <<"write", "StreamStart">>}
           => \E j \in 1..(i - 1) : usb[j] = <<"write", "StreamStop">>
        /\ usb[i] = <<"write", "StreamStop">>
           => \E j \in 1..(i - 1) : usb[j] = <<"write", "ConfigIO">>

W_C2 == Wrote("StreamConfig") /\ Wrote("StreamStop") /\ Wrote("ConfigIO")

(* ---------------------------------------------------------------------- *)
(* C3: a polling cycle publishes exactly one scan of NumChannels values   *)
(* iff the read was full and every packet is well formed with a status in *)
(* {0, 59, 60}; otherwise it publishes nothing, and the first rejected    *)
(* packet is the last one looked at.                                      *)
(* ---------------------------------------------------------------------- *)
T_C3 ==
    cycle.ran =>
      LET b == stream.recBuff
          good == FullRead /\ \A m \in Packets : PacketAccepted(b, m)
      IN  /\ good <=> Len(cycle.published) = 1
          /\ good => DOMAIN cycle.published[1] = Channels
          /\ ~good => cycle.published = <<>>
          /\ (FullRead /\ ~good) =>
               LET f == FirstRejected(b) IN
               /\ cycle.totalPackets = f + 1
               /\ Len(cycle.writes) = f * SamplesPerPacket
               /\ \A n \in DOMAIN cycle.writes : cycle.writes[n].packet < f
               /\ Len(cycle.errors) = 1

W_C3 ==
    /\ cycle.ran /\ FullRead
    /\ FirstRejected(stream.recBuff) = 2
    /\ cycle.published = <<>>
    /\ Len(cycle.writes) = 2 * SamplesPerPacket

(* ---------------------------------------------------------------------- *)
(* C4: the published scan is the last completed one: channel c carries   *)
(* the calibrated conversion of sample SamplesPerPacket - NumChannels + c *)
(* of the last packet, which is scan scanNumber - 1 = 24 of 25.           *)
(* ---------------------------------------------------------------------- *)
T_C4 ==
    (cycle.ran /\ cycle.published # <<>>) =>
      /\ cycle.scanNumber - 1 = voltagesRows - 1
      /\ Len(cycle.writes) = SamplesPerPacket * readSizeMultiplier
      /\ \A c \in Channels :
           cycle.published[1][c] =
             ToFloat32(Calibrated(c,
                 SampleAt(stream.recBuff, readSizeMultiplier - 1,
                          SamplesPerPacket - NumChannels + c)))

W_C4 ==
    /\ cycle.ran /\ cycle.published # <<>>
    /\ \E m \in Packets : StatusByte(stream.recBuff, m) = 59

(* ---------------------------------------------------------------------- *)
(* C5: samples go to channels round-robin across packet boundaries: the   *)
(* i-th sample of a read is stored at [i div NumChannels][i mod           *)
(* NumChannels], after n samples currChannel = n mod NumChannels and      *)
(* scanNumber = n div NumChannels, and every packet starts at channel 0.  *)
(* ---------------------------------------------------------------------- *)
T_C5 ==
    cycle.ran =>
      /\ \A n \in DOMAIN cycle.writes :
           LET w == cycle.writes[n]
               i == n - 1
           IN  /\ w.scan = i \div NumChannels
               /\ w.chan = i % NumChannels
               /\ w.packet = i \div SamplesPerPacket
               /\ w.k = 12 + 2 * (i % SamplesPerPacket)
               /\ w.k = 12 => w.chan = 0
      /\ cycle.currChannel = Len(cycle.writes) % NumChannels
      /\ cycle.scanNumber = Len(cycle.writes) \div NumChannels
      /\ Len(cycle.writes) = SamplesPerPacket =>
           cycle.scanNumber = SamplesPerPacket \div NumChannels

\* One packet was consumed and the next one rejected: 5 completed scans.
W_C5 ==
    /\ cycle.ran
    /\ Len(cycle.writes) = SamplesPerPacket
    /\ cycle.scanNumber = 5 /\ cycle.currChannel = 0

(* ---------------------------------------------------------------------- *)
(* C6: statuses 59 and 60 are never failures: such a packet has all its   *)
(* samples extracted and the next packet is processed, and a read whose   *)
(* packets all carry a status in {0, 59, 60} publishes the scan it would  *)
(* publish with all statuses 0.                                           *)
(* ---------------------------------------------------------------------- *)
\* The first n packets of a read buffer, each with its status byte set to
\* 0 and its checksums redone.
RECURSIVE ZeroedPackets(_, _)
ZeroedPackets(b, n) ==
    IF n = 0 THEN <<>>
    ELSE Append(ZeroedPackets(b, n - 1),
                extendedChecksum(
                    [Slice(b, (n - 1) * responseSize, responseSize)
                        EXCEPT ![11] = 0], responseSize))

\* The read buffer with every status byte set to 0.
WithStatusZero(b) ==
    LET pk == ZeroedPackets(b, readSizeMultiplier) IN
    [i \in DOMAIN b |-> pk[(i \div responseSize) + 1][i % responseSize]]

\* The status byte of packet m is looked at by the cycle.
Examined(b, m) ==
    /\ \A n \in 0..(m - 1) : PacketAccepted(b, n)
    /\ PacketWellFormed(b, m)

T_C6 ==
    (cycle.ran /\ FullRead) =>
      LET b == stream.recBuff IN
      /\ \A m \in Packets :
           (Examined(b, m) /\ StatusByte(b, m) \in {59, 60}) =>
             /\ Cardinality({n \in DOMAIN cycle.writes :
                               cycle.writes[n].packet = m}) = SamplesPerPacket
             /\ (m + 1 < readSizeMultiplier => cycle.totalPackets > m + 1)
      /\ (\A m \in Packets : PacketAccepted(b, m)) =>
           /\ cycle.errors = <<>>
           /\ cycle.published # <<>>
           /\ cycle.published =
                ReadAndPub(CycleStart(NoFrame), stream.recChars,
                           WithStatusZero(b),
                           hardwareVersion_, dac1Enabled_).published

W_C6 ==
    /\ cycle.ran /\ FullRead
    /\ \A m \in Packets : PacketAccepted(stream.recBuff, m)
    /\ \E m \in Packets : StatusByte(stream.recBuff, m) = 60
    /\ cycle.published # <<>>

(* ---------------------------------------------------------------------- *)
(* C7: the recovery flag is set by a status-59 packet and cleared by a    *)
(* status-60 packet; the overflow notice is printed only for a 59 packet  *)
(* met while the flag is off; the recovery notice of a 60 packet reports  *)
(* byte 6 + 256 * byte 7 of that packet.                                  *)
(* ---------------------------------------------------------------------- *)
\* The flag when packet m is reached: the latest earlier packet with a
\* status of 59 or 60 carries 59.
FlagBefore(b, m) ==
    LET E == {n \in 0..(m - 1) : StatusByte(b, n) \in {59, 60}} IN
    E # {} /\ StatusByte(b, CHOOSE n \in E : \A x \in E : x <= n) = 59

T_C7 ==
    cycle.ran =>
      IF ~FullRead THEN cycle.notices = <<>> /\ cycle.autoRecoveryOn = 0
      ELSE
      LET b == stream.recBuff
          seen == {m \in Packets : Examined(b, m)}
      IN
      /\ \A m \in Packets :
           ([kind |-> "overflow", packet |-> m + 1, dropped |-> 0]
               \in Range(cycle.notices))
           <=> (m \in seen /\ StatusByte(b, m) = 59 /\ ~FlagBefore(b, m))
      /\ \A m \in Packets :
           ([kind |-> "recovery", packet |-> m + 1,
             dropped |-> b[m * responseSize + 6]
                         + 256 * b[m * responseSize + 7]]
               \in Range(cycle.notices))
           <=> (m \in seen /\ StatusByte(b, m) = 60)
      /\ Len(cycle.notices) =
           Cardinality({m \in seen :
                          \/ StatusByte(b, m) = 60
                          \/ StatusByte(b, m) = 59 /\ ~FlagBefore(b, m)})
      /\ \A i, j \in DOMAIN cycle.notices :
           i < j => cycle.notices[i].packet < cycle.notices[j].packet
      /\ cycle.autoRecoveryOn =
           IF seen # {}
              /\ FlagBefore(b, 1 + CHOOSE n \in seen : \A x \in seen : x <= n)
           THEN 1 ELSE 0

\* A 59 packet followed later by a 60 packet, both looked at.
W_C7 ==
    /\ cycle.ran /\ FullRead
    /\ \E m, n \in Packets :
         /\ m < n
         /\ Examined(stream.recBuff, n)
         /\ StatusByte(stream.recBuff, m) = 59
         /\ StatusByte(stream.recBuff, n) = 60
    /\ cycle.autoRecoveryOn = 0
    /\ Len(cycle.notices) = 2

(* ---------------------------------------------------------------------- *)
(* C8: when packet m carries a status other than 0, 59 or 60 the read is  *)
(* aborted with a device error whose reported code is the status byte of  *)
(* that packet m.                                                         *)
(* ---------------------------------------------------------------------- *)
C8_Claim ==
    (cycle.ran /\ FullRead) =>
      LET b == stream.recBuff
          m == FirstRejected(b)
      IN  (m < readSizeMultiplier /\ PacketWellFormed(b, m)) =>
            /\ cycle.published = <<>>
            /\ cycle.errors = << [msg |-> "errorcode",
                                  code |-> StatusByte(b, m)] >>

CmdSize(cmd) ==
    CASE cmd = "ConfigIO" -> 12
      [] cmd = "StreamConfig" -> StreamConfig_sendBuffSize
      [] OTHER -> 2

RespSize(cmd) ==
    CASE cmd = "ConfigIO" -> 12
      [] cmd = "StreamConfig" -> 8
      [] OTHER -> 4

\* The response b satisfies every check the protocol puts on it.
ResponseGood(cmd, b) ==
    CASE cmd = "ConfigIO" ->
           /\ b[5] = extendedChecksum16(b, 12) \div 256
           /\ b[4] = extendedChecksum16(b, 12) % 256
           /\ b[0] = extendedChecksum8(b)
           /\ b[1] = 248 /\ b[2] = 3 /\ b[3] = 11
           /\ b[6] = 0
           /\ b[8] = 64 /\ b[10] \in {255, 15} /\ b[11] = 255
      [] cmd = "StreamConfig" ->
           /\ b[5] = extendedChecksum16(b, 8) \div 256
           /\ b[4] = extendedChecksum16(b, 8) % 256
           /\ b[0] = extendedChecksum8(b)
           /\ b[1] = 248 /\ b[2] = 1 /\ b[3] = 17 /\ b[7] = 0
           /\ b[6] = 0
      [] cmd = "StreamStart" ->
           /\ b[0] = normalChecksum8(b, 4)
           /\ b[1] = 169 /\ b[3] = 0 /\ b[2] = 0
      [] cmd = "StreamStop" ->
           /\ b[0] = normalChecksum8(b, 4)
           /\ b[1] = 177 /\ b[3] = 0 /\ b[2] = 0

CallPasses(c) ==
    /\ c.sendChars = CmdSize(c.cmd)
    /\ c.didRead
    /\ c.recChars = RespSize(c.cmd)
    /\ ResponseGood(c.cmd, c.recBuff)

T_C10 ==
    /\ call.cmd # "" =>
         /\ call.sendChars < CmdSize(call.cmd) =>
              /\ call.ret = -1
              /\ ~call.didRead
              /\ call.msg \in {"write failed",
                               "did not write all of the buffer"}
         /\ (call.didRead /\ call.recChars < RespSize(call.cmd)) =>
              /\ call.ret = -1
              /\ call.msg \in {"read failed",
                               "did not read all of the buffer"}
    /\ \A cmd \in {"ConfigIO", "StreamConfig", "StreamStart", "StreamStop"} :
         Cardinality({i \in DOMAIN usb : usb[i] = <<"write", cmd>>})
           <= IF cmd = "StreamStop" THEN 2 ELSE 1
    /\ (cycle.ran /\ ~FullRead) =>
         /\ cycle.totalPackets = 0
         /\ cycle.writes = <<>>
         /\ cycle.notices = <<>>
         /\ cycle.published = <<>>
         /\ Len(cycle.errors) = 1
         /\ cycle.errors[1].msg \in {"read failed",
                                     "did not read all of the buffer"}

\* A stream read one byte short of a buffer that would pass every check.
W_C10 ==
    /\ cycle.ran
    /\ stream.recChars = responseSize * readSizeMultiplier - 1
    /\ \A m \in Packets : PacketAccepted(stream.recBuff, m)
    /\ cycle.published = <<>>

(* ---------------------------------------------------------------------- *)
(* C11: when the low byte of the 16-bit checksum (offset 4) of an         *)
(* otherwise valid 8-byte StreamConfig response is corrupted,             *)
(* StreamConfig_example fails with the checksum mismatch and the node     *)
(* never gets configured: the constructor throws, StreamStart is never    *)
(* sent, the timer is never created and no polling cycle ever runs.       *)
(* ---------------------------------------------------------------------- *)
\* The response b of a completed call of cmd is good except for byte i.
GoodExceptByte(c, i) ==
    /\ c.sendChars = CmdSize(c.cmd)
    /\ c.didRead
    /\ c.recChars = RespSize(c.cmd)
    /\ ~ResponseGood(c.cmd, c.recBuff)
    /\ \E v \in 0..255 : ResponseGood(c.cmd, [c.recBuff EXCEPT ![i] = v])

T_C11 ==
    (call.cmd = "StreamConfig" /\ GoodExceptByte(call, 4)) =>
      /\ call.ret = -1
      /\ call.msg = "bad checksum16(LBS)"
      /\ thrown = "Error: StreamConfig_example"
      /\ pc = "terminated"
      /\ "StreamConfig" \notin passed
      /\ ~Wrote("StreamStart")
      /\ ~timerPub_
      /\ ~cycle.ran

\* The constructor has stopped on a StreamConfig response whose only
\* fault is its byte 4.
W_C11 ==
    /\ call.cmd = "StreamConfig"
    /\ GoodExceptByte(call, 4)
    /\ call.recBuff[4] # extendedChecksum16(call.recBuff, 8) % 256
    /\ call.recBuff[5] = extendedChecksum16(call.recBuff, 8) \div 256
    /\ thrown # ""

(* ---------------------------------------------------------------------- *)
(* C12: a polling cycle that aborts on a fatal error (short read,         *)
(* checksum, command echo, device error status) leaves the stream state   *)
(* as it was: it sends no command, the handle stays open, the timer stays *)
(* armed, nothing is thrown, and the trigger after it runs a normal cycle *)
(* that either reports an error of its own or processes all packets and   *)
(* publishes.                                                             *)
(* ---------------------------------------------------------------------- *)
T_C12 ==
    [][ /\ (cycle'.ran /\ cycle'.errors # <<>>) =>
             /\ usb' = usb
             /\ call' = call
             /\ passed' = passed
             /\ hDevice_' = hDevice_
             /\ hDevice_' = "open"
             /\ thrown' = ""
             /\ timerPub_'
             /\ pc' = "spin"
        /\ (cycle.ran /\ cycle.errors # <<>> /\ cycle'.ran) =>
             /\ cycle'.count = cycle.count + 1
             /\ cycle'.after = "aborted"
             /\ cycle'.errors = <<>> =>
                  /\ cycle'.totalPackets = readSizeMultiplier
                  /\ Len(cycle'.writes)
                       = readSizeMultiplier * SamplesPerPacket
                  /\ Len(cycle'.published) = 1 ]_vars

\* A cycle that published although the cycle before it was aborted, with
\* no command sent since StreamStart.
W_C12 ==
    /\ cycle.ran
    /\ cycle.after = "aborted"
    /\ cycle.errors = <<>>
    /\ Len(cycle.published) = 1
    /\ usb[Len(usb)] = <<"write", "StreamStart">>
    /\ timerPub_
    /\ pc = "spin"

(* ---------------------------------------------------------------------- *)
(* C13: when the device answers the StreamStop of the initialisation with *)
(* a nonzero error code in byte 2 of an otherwise valid response (no      *)
(* stream was active), StreamStop returns failure and no member of the    *)
(* node changes; the constructor does not throw and goes on to the        *)
(* StreamConfig command, which it sends whatever the stop returned, and   *)
(* to StreamStart once StreamConfig is accepted.                          *)
(* ---------------------------------------------------------------------- *)
\* The call c is a StreamStop the device refused with an error code.
StopRefused(c) ==
    /\ c.cmd = "StreamStop"
    /\ c.sendChars = 2
    /\ c.didRead
    /\ c.recChars = 4
    /\ c.recBuff[0] = normalChecksum8(c.recBuff, 4)
    /\ c.recBuff[1] = 177
    /\ c.recBuff[3] = 0
    /\ c.recBuff[2] # 0

T_C13 ==
    [][ /\ (pc = "StreamStop" /\ StopRefused(call')) =>
             /\ call'.ret = -1
             /\ UNCHANGED <<hDevice_, hardwareVersion_, dac1Enabled_,
                            timerPub_, thrown, passed, stream, cycle>>
             /\ thrown' = ""
             /\ pc' = "StreamConfig_example"
        /\ (pc = "StreamConfig_example" /\ StopRefused(call)) =>
             /\ usb' = Append(usb, <<"write", "StreamConfig">>)
             /\ call'.cmd = "StreamConfig"
             /\ call'.ret = 0 => pc' = "StreamStart"
        /\ pc = "StreamStart" =>
             /\ usb' = Append(usb, <<"write", "StreamStart">>)
             /\ call'.cmd = "StreamStart" ]_vars

\* The constructor is about to configure the stream after a refused stop.
W_C13 ==
    /\ pc = "StreamConfig_example"
    /\ StopRefused(call)
    /\ call.ret = -1
    /\ thrown = ""
    /\ usb[Len(usb)] = <<"write", "StreamStop">>

(* ---------------------------------------------------------------------- *)
(* C14: the device session goes Closed, Configured, Streaming, Stopped,   *)
(* Closed: when a streaming node shuts down, StreamStop is sent and then  *)
(* the handle is closed, once, as the last transport operation; the       *)
(* handle is closed whether or not StreamStop succeeded; and no polling   *)
(* read is made once the handle is closed.                                *)
(* ---------------------------------------------------------------------- *)
T_C14 ==
    /\ hDevice_ = "closed" =>
         /\ usb = << <<"open">>, <<"write", "ConfigIO">>,
                     <<"write", "StreamStop">>, <<"write", "StreamConfig">>,
                     <<"write", "StreamStart">>, <<"write", "StreamStop">>,
                     <<"close">> >>
         /\ passed = {"ConfigIO", "StreamConfig", "StreamStart"}
         /\ call.cmd = "StreamStop"
         /\ pc = "terminated"
         /\ ~timerPub_
         /\ ~cycle.ran
         /\ stream = NoStream
    /\ (pc = "terminated" /\ thrown = "") =>
         /\ hDevice_ = "closed"
         /\ call.cmd = "StreamStop"
    /\ (pc = "spin" \/ cycle.ran) => hDevice_ = "open"

\* A shutdown whose StreamStop failed: the handle is closed all the same.
W_C14 ==
    /\ hDevice_ = "closed"
    /\ call.cmd = "StreamStop"
    /\ call.ret = -1
    /\ usb[Len(usb)] = <<"close">>

(* ---------------------------------------------------------------------- *)
(* C15: StreamStart hands exactly the two bytes 0xA8 0xA8 to the          *)
(* transport and StreamStop exactly 0xB0 0xB0; StreamStart returns        *)
(* success exactly for the 4-byte responses whose byte 0 is the normal    *)
(* checksum8 of the frame, byte 1 is 0xA9, byte 2 is 0 and byte 3 is 0,   *)
(* and failure for every other response.                                  *)
(* ---------------------------------------------------------------------- *)
T_C15 ==
    /\ call.cmd = "StreamStart" =>
         /\ call.sendSize = 2
         /\ DOMAIN call.sendBuff = {0, 1}
         /\ call.sendBuff[0] = 168
         /\ call.sendBuff[1] = 168
         /\ call.ret \in {0, -1}
         /\ call.ret = 0 <=>
              /\ call.sendChars = 2
              /\ call.didRead
              /\ call.recChars = 4
              /\ call.recBuff[0] = normalChecksum8(call.recBuff, 4)
              /\ call.recBuff[1] = 169
              /\ call.recBuff[2] = 0
              /\ call.recBuff[3] = 0
    /\ call.cmd = "StreamStop" =>
         /\ call.sendSize = 2
         /\ DOMAIN call.sendBuff = {0, 1}
         /\ call.sendBuff[0] = 176
         /\ call.sendBuff[1] = 176

\* StreamStart refused a response that has a good checksum and no error
\* code but echoes another command.
W_C15 ==
    /\ call.cmd = "StreamStart"
    /\ call.recChars = 4
    /\ call.recBuff[0] = normalChecksum8(call.recBuff, 4)
    /\ call.recBuff[1] # 169
    /\ call.recBuff[2] = 0
    /\ call.recBuff[3] = 0
    /\ call.ret = -1
    /\ call.sendBuff = [i \in {0, 1} |-> 168]

(* ---------------------------------------------------------------------- *)
(* C16: ConfigIO_example succeeds only if the 12-byte response has valid  *)
(* checksums, echoes 0xF8 0x03 0x0B, carries error code 0 and confirms    *)
(* the requested configuration (byte 8 = 64, byte 10 = 255 or 0x0F,       *)
(* byte 11 = 255); the DAC1-enabled member is set to byte 9 of the        *)
(* response on success and is left unwritten on every failure.            *)
(* ---------------------------------------------------------------------- *)
T_C16 ==
    call.cmd = "ConfigIO" =>
      /\ call.ret = 0 =>
           /\ call.sendChars = 12
           /\ call.didRead
           /\ call.recChars = 12
           /\ call.recBuff[5] = extendedChecksum16(call.recBuff, 12) \div 256
           /\ call.recBuff[4] = extendedChecksum16(call.recBuff, 12) % 256
           /\ call.recBuff[0] = extendedChecksum8(call.recBuff)
           /\ call.recBuff[1] = 248
           /\ call.recBuff[2] = 3
           /\ call.recBuff[3] = 11
           /\ call.recBuff[6] = 0
           /\ call.recBuff[8] = 64
           /\ call.recBuff[10] \in {255, 15}
           /\ call.recBuff[11] = 255
           /\ dac1Enabled_ = call.recBuff[9]
      /\ call.ret # 0 => dac1Enabled_ = Unwritten

\* ConfigIO accepted a response that reports FIOAnalog 0x0F and DAC1 on.
W_C16 ==
    /\ call.cmd = "ConfigIO"
    /\ call.ret = 0
    /\ call.recBuff[10] = 15
    /\ call.recBuff[9] = 1
    /\ dac1Enabled_ = 1

(* ---------------------------------------------------------------------- *)
(* C17: polling cycles share no mutable state: whatever the cycle before  *)
(* left behind (it may have ended in recovery mode or been aborted        *)
(* midway), a cycle processes, reports and publishes exactly what the     *)
(* first cycle of a node with the same calibration context does when fed  *)
(* the same read buffer.                                                  *)
(* ---------------------------------------------------------------------- *)
\* The run of a node that never ran a cycle before, on the read rd.
FirstRun(rd, hardwareVersion, dacEnabled) ==
    CHOOSE run \in HandlerRuns[CycleStart(NoFrame), hardwareVersion,
                               dacEnabled] : run.stream = rd

T_C17 ==
    cycle.ran =>
      LET first == FirstRun(stream, hardwareVersion_, dac1Enabled_).out IN
      /\ cycle.published = first.published
      /\ cycle.notices = first.notices
      /\ cycle.errors = first.errors
      /\ cycle.writes = first.writes
      /\ cycle.totalPackets = first.totalPackets

\* A second cycle, run after one that ended in recovery mode, reports the
\* overflow of its own first packet and publishes.
W_C17 ==
    /\ cycle.ran
    /\ cycle.count = 2
    /\ cycle.after = "recovery"
    /\ Len(cycle.notices) >= 1
    /\ cycle.notices[1].kind = "overflow"
    /\ cycle.notices[1].packet = 1
    /\ Len(cycle.published) = 1

(* ---------------------------------------------------------------------- *)
(* C18: the checks on a response are made in a fixed order with an early  *)
(* return: checksum16 high byte, checksum16 low byte, checksum8, then the *)
(* command echo, then the device error code, then (ConfigIO only) the     *)
(* configuration bytes; a response that fails several checks is reported  *)
(* as the earliest of them.  This holds for ConfigIO, StreamConfig and    *)
(* every packet of a stream read.                                         *)
(* ---------------------------------------------------------------------- *)
\* The class of check a logged message belongs to.
CheckOf(msg) ==
    CASE msg = "bad checksum16(MSB)" -> "checksum16 high"
      [] msg = "bad checksum16(LBS)" -> "checksum16 low"
      [] msg = "bad checksum8" -> "checksum8"
      [] msg = "wrong command bytes" -> "echo"
      [] msg = "errorcode" -> "errorcode"
      [] msg \in {"TimerCounterConfig not set", "FIOAnalog not set",
                  "EIOAnalog not set"} -> "configuration"
      [] OTHER -> "none"

\* checks is a sequence of <<failed, check>> in the order of the claim:
\* the first check that failed, "none" when all passed.
Earliest(checks) ==
    IF \A i \in DOMAIN checks : ~checks[i][1] THEN "none"
    ELSE checks[CHOOSE i \in DOMAIN checks :
                  /\ checks[i][1]
                  /\ \A j \in DOMAIN checks : j < i => ~checks[j][1]][2]

\* Number of checks that failed.
Failed(checks) == Cardinality({i \in DOMAIN checks : checks[i][1]})

ConfigIOChecks(b) ==
    << <<b[5] # extendedChecksum16(b, 12) \div 256, "checksum16 high">>,
       <<b[4] # extendedChecksum16(b, 12) % 256, "checksum16 low">>,
       <<b[0] # extendedChecksum8(b), "checksum8">>,
       <<b[1] # 248 \/ b[2] # 3 \/ b[3] # 11, "echo">>,
       <<b[6] # 0, "errorcode">>,
       <<b[8] # 64 \/ b[10] \notin {255, 15} \/ b[11] # 255,
         "configuration">> >>

StreamConfigChecks(b) ==
    << <<b[5] # extendedChecksum16(b, 8) \div 256, "checksum16 high">>,
       <<b[4] # extendedChecksum16(b, 8) % 256, "checksum16 low">>,
       <<b[0] # extendedChecksum8(b), "checksum8">>,
       <<b[1] # 248 \/ b[2] # 1 \/ b[3] # 17 \/ b[7] # 0, "echo">>,
       <<b[6] # 0, "errorcode">> >>

PacketChecks(b, m) ==
    LET pkt == Slice(b, m * responseSize, responseSize) IN
    << <<pkt[5] # extendedChecksum16(pkt, responseSize) \div 256,
         "checksum16 high">>,
       <<pkt[4] # extendedChecksum16(pkt, responseSize) % 256,
         "checksum16 low">>,
       <<pkt[0] # extendedChecksum8(pkt), "checksum8">>,
       <<pkt[1] # 249 \/ pkt[2] # 4 + SamplesPerPacket \/ pkt[3] # 192,
         "echo">>,
       <<pkt[11] \notin {0, 59, 60}, "errorcode">> >>

T_C18 ==
    /\ (call.cmd = "ConfigIO" /\ call.didRead /\ call.recChars = 12) =>
         CheckOf(call.msg) = Earliest(ConfigIOChecks(call.recBuff))
    /\ (call.cmd = "StreamConfig" /\ call.didRead /\ call.recChars = 8) =>
         CheckOf(call.msg) = Earliest(StreamConfigChecks(call.recBuff))
    /\ (cycle.ran /\ FullRead) =>
         IF cycle.errors = <<>>
         THEN \A m \in Packets :
                Earliest(PacketChecks(stream.recBuff, m)) = "none"
         ELSE /\ Len(cycle.errors) = 1
              /\ CheckOf(cycle.errors[1].msg)
                   = Earliest(PacketChecks(stream.recBuff,
                                           cycle.totalPackets - 1))
              /\ \A m \in Packets : m < cycle.totalPackets - 1 =>
                   Earliest(PacketChecks(stream.recBuff, m)) = "none"

\* A StreamConfig response with a wrong checksum8, a wrong command echo
\* and an error code is reported for its checksum8.
W_C18 ==
    /\ call.cmd = "StreamConfig"
    /\ call.didRead
    /\ call.recChars = 8
    /\ call.msg = "bad checksum8"
    /\ Failed(StreamConfigChecks(call.recBuff)) = 3
    /\ StreamConfigChecks(call.recBuff)[4][1]
    /\ StreamConfigChecks(call.recBuff)[5][1]

(* ---------------------------------------------------------------------- *)
(* C19: the StreamConfig command frame has 12 + 2 * NumChannels bytes (22 *)
(* for 5 channels): command byte 0xF8, word count NumChannels + 3,        *)
(* extended command 0x11, byte 6 = NumChannels, byte 7 = samples per      *)
(* packet, the scan interval 4000 little-endian in bytes 10 and 11, and   *)
(* for channel i byte 12 + 2i = i and byte 13 + 2i = 31; exactly that     *)
(* many bytes are handed to the transport, and the command succeeds only  *)
(* when the transport took them all.                                      *)
(* ---------------------------------------------------------------------- *)
T_C19 ==
    call.cmd = "StreamConfig" =>
      /\ DOMAIN call.sendBuff = 0..21
      /\ call.sendSize = 22
      /\ call.sendSize = 12 + NumChannels * 2
      /\ call.sendBuff[1] = 248
      /\ call.sendBuff[2] = NumChannels + 3
      /\ call.sendBuff[3] = 17
      /\ call.sendBuff[6] = NumChannels
      /\ call.sendBuff[7] = SamplesPerPacket
      /\ call.sendBuff[10] = 160
      /\ call.sendBuff[11] = 15
      /\ call.sendBuff[10] + 256 * call.sendBuff[11] = 4000
      /\ \A i \in 0..(NumChannels - 1) :
           /\ call.sendBuff[12 + 2 * i] = i
           /\ call.sendBuff[13 + 2 * i] = 31
      /\ call.ret = 0 => call.sendChars = call.sendSize

\* An accepted StreamConfig whose 22 bytes were all written.
W_C19 ==
    /\ call.cmd = "StreamConfig"
    /\ call.ret = 0
    /\ call.sendChars = 22
    /\ call.sendBuff[20] = 4
    /\ call.sendBuff[21] = 31

(* ---------------------------------------------------------------------- *)
(* C20: within a cycle every sample goes through the one calibration path *)
(* chosen by the hardware version of the calibration record: for versions *)
(* from 1.30 on the hw130 converter, which is given the current channel   *)
(* and not the DAC1 flag, for earlier versions the other converter, which *)
(* is given the DAC1 flag and not the channel.  Each is given the raw     *)
(* code byte k + 256 * byte k+1 and the negative channel 31, and its      *)
(* result is stored at [scanNumber][currChannel].                         *)
(* ---------------------------------------------------------------------- *)
T_C20 ==
    cycle.ran =>
      \A n \in DOMAIN cycle.writes :
        LET w == cycle.writes[n]
            at == w.packet * responseSize + w.k
            raw == stream.recBuff[at] + 256 * stream.recBuff[at + 1]
        IN
        /\ w.packet = (n - 1) \div SamplesPerPacket
        /\ w.k = 12 + 2 * ((n - 1) % SamplesPerPacket)
        /\ w.scan = (n - 1) \div NumChannels
        /\ w.chan = (n - 1) % NumChannels
        /\ w.volt = IF hardwareVersion_ >= 130
                    THEN <<"hw130", hardwareVersion_, w.chan, 31, raw>>
                    ELSE <<"legacy", hardwareVersion_, dac1Enabled_, 31, raw>>

\* A cycle of a node of hardware version 1.30 exactly, with DAC1 on, that
\* converted every sample of the read.
W_C20 ==
    /\ cycle.ran
    /\ hardwareVersion_ = 130
    /\ dac1Enabled_ = 1
    /\ Len(cycle.writes) = readSizeMultiplier * SamplesPerPacket
    /\ cycle.writes[8].volt[1] = "hw130"
    /\ cycle.writes[8].volt[3] = 2

(* ---------------------------------------------------------------------- *)
(* C21: all buffer indices of a polling cycle stay in range: every        *)
(* receive-buffer access m * recBuffSize + k lies within the 320 bytes    *)
(* read, every write to the scan buffer has 0 <= scanNumber <= 24 and     *)
(* 0 <= currChannel <= 4, and when the publish step is reached            *)
(* scanNumber - 1 = 24 and row 24 is the one the cycle wrote last.        *)
(* ---------------------------------------------------------------------- *)
T_C21 ==
    cycle.ran =>
      /\ cycle.totalPackets \in 0..readSizeMultiplier
      /\ cycle.totalPackets > 0 =>
           /\ DOMAIN stream.recBuff = 0..319
           /\ \A k \in 0..11 :
                (cycle.totalPackets - 1) * recBuffSize + k
                  \in DOMAIN stream.recBuff
      /\ \A n \in DOMAIN cycle.writes :
           LET w == cycle.writes[n] IN
           /\ w.packet \in 0..(cycle.totalPackets - 1)
           /\ w.packet * recBuffSize + w.k \in DOMAIN stream.recBuff
           /\ w.packet * recBuffSize + w.k + 1 \in DOMAIN stream.recBuff
           /\ w.scan \in 0..24
           /\ w.chan \in 0..4
      /\ cycle.published # <<>> =>
           /\ cycle.scanNumber - 1 = 24
           /\ Len(cycle.writes) = 125
           /\ \A c \in 0..4 :
                /\ cycle.writes[121 + c].scan = 24
                /\ cycle.writes[121 + c].chan = c
                /\ cycle.writes[121 + c].volt[1] \in {"hw130", "legacy"}
                /\ cycle.published[1][c]
                     = ToFloat32(cycle.writes[121 + c].volt)

\* A cycle that published: its last conversion read bytes 316 and 317 of
\* the buffer and wrote row 24, channel 4.
W_C21 ==
    /\ cycle.ran
    /\ Len(cycle.published) = 1
    /\ cycle.scanNumber = 25
    /\ cycle.writes[125].packet * recBuffSize + cycle.writes[125].k = 316
    /\ cycle.writes[125].scan = 24
    /\ cycle.writes[125].chan = 4

(* ---------------------------------------------------------------------- *)
(* C22: every device handle that was opened is closed on every path: when *)
(* the node has ended, by normal shutdown or by an initialisation failure *)
(* after the open (getCalibrationInfo, ConfigIO, StreamConfig or          *)
(* StreamStart), no handle is left open, and the handle is closed before  *)
(* the failure is reported.                                               *)
(* ---------------------------------------------------------------------- *)
C22_Claim ==
    /\ thrown # "" => hDevice_ \in {"null", "closed"}
    /\ pc = "terminated" => hDevice_ \in {"null", "closed"}

====
